---- MODULE Spec2Model ----
(***************************************************************************)
(* walk-the-dog: the character state machine (RedHatBoyStateMachine), the  *)
(* obstacle model (Platform, Barrier) and the world controller (Walk) of   *)
(* src/src/game.rs.                                                        *)
(***************************************************************************)
EXTENDS Integers, Sequences, FiniteSets

\* ---------------------------------------------------------------------------
\* Program constants (src/src/game.rs)
\* ---------------------------------------------------------------------------
HEIGHT == 600
TIMELINE_MINIMUM == 1000
OBSTACLE_BUFFER == 20
FLOOR == 479
PLAYER_HEIGHT == HEIGHT - FLOOR
STARTING_POINT == 0 - 20
IDLE_FRAMES == 29
SLIDING_FRAMES == 14
RUNNING_FRAMES == 23
JUMP_FRAMES == 35
FALL_FRAMES == 29
RUNNING_SPEED == 4
JUMP_SPEED == 0 - 23
GRAVITY == 1
TERMINAL_VELOCITY == 20
\* the width of the rectangle WalkTheDog::draw clears
VIEWPORT_WIDTH == 600

\* ---------------------------------------------------------------------------
\* Bounds of the model
\* ---------------------------------------------------------------------------
\* Update-only runs: the number of Updates that are counted
MaxUpdates == 80

\* Platform::move_horizontally on its own: how far the platform is followed
MaxDrift == 12

\* the ticks are followed until the world has scrolled this far
MaxScroll == 620

\* the values of pos the event Land(pos) is tried with: HEIGHT (what
\* Jumping::update passes) and the top of a box above the floor line
LandPositions == {HEIGHT, 420}

Tags == {"Idle", "Running", "Sliding", "Jumping", "Falling", "KnockedOut"}

\* enum Event
Events ==
    {[type |-> t] : t \in {"Run", "Jump", "Slide", "KnockOut", "Update"}}
        \cup {[type |-> "Land", pos |-> p] : p \in LandPositions}

VARIABLES
    state_machine,  \* RedHatBoy.state_machine: [tag, context]
    last_event,     \* the event of the last transition ("None" at the start)
    updates,        \* Update-only runs: Updates applied since frame 0, -1 = not counted
    platform,       \* a Platform on its own: [id, kind, position, bounding_boxes]
    relative_boxes, \* the bounding_boxes argument platform was built from
    last_move,      \* the argument of the last Platform::move_horizontally
    backgrounds,    \* Walk.backgrounds
    obstacles,      \* Walk.obstacles
    timeline,       \* Walk.timeline
    next_id,        \* number of obstacles built so far (ids are 1..next_id)
    removed,        \* ids of the obstacles the cull has dropped
    scrolled,       \* sum of the character's x-velocity over the ticks
    at_check,       \* the character when the last obstacle loop started
    checks,         \* the last obstacle loop: [id, before, event] per obstacle checked
    keys,           \* the keys held in the last tick, where they are recorded
    game,           \* the WalkTheDog value that is driven: "Loading" or "Loaded" ("None": no game)
    initializing,   \* steps the initialize call in flight has completed, -1 = none in flight
    init_result,    \* what the last initialize call returned
    drawn           \* the renderer calls of the last operation on the game

boy_vars == <<state_machine, last_event, updates>>
platform_vars == <<platform, relative_boxes, last_move>>
walk_vars == <<backgrounds, obstacles, timeline, next_id, removed, scrolled>>
check_vars == <<at_check, checks, keys>>
facade_vars == <<game, initializing, init_result, drawn>>
vars == <<boy_vars, platform_vars, walk_vars, check_vars, facade_vars>>

\* ---------------------------------------------------------------------------
\* RedHatBoyContext
\* ---------------------------------------------------------------------------
\* update wrapping one Update early: the counter never shows frame_count
update_WrapsBeforeThreshold(c, frame_count) ==
    LET vy == IF c.velocity.y < TERMINAL_VELOCITY
              THEN c.velocity.y + GRAVITY ELSE c.velocity.y
        fr == IF c.frame + 1 < frame_count THEN c.frame + 1 ELSE 0
        y1 == c.position.y + vy
        y2 == IF y1 > FLOOR THEN FLOOR ELSE y1
    IN  [frame |-> fr,
         position |-> [x |-> c.position.x, y |-> y2],
         velocity |-> [x |-> c.velocity.x, y |-> vy]]

\* update with <= in the terminal-velocity test
update_GravityAtTerminal(c, frame_count) ==
    LET vy == IF c.velocity.y <= TERMINAL_VELOCITY
              THEN c.velocity.y + GRAVITY ELSE c.velocity.y
        fr == IF c.frame < frame_count THEN c.frame + 1 ELSE 0
        y1 == c.position.y + vy
        y2 == IF y1 > FLOOR THEN FLOOR ELSE y1
    IN  [frame |-> fr,
         position |-> [x |-> c.position.x, y |-> y2],
         velocity |-> [x |-> c.velocity.x, y |-> vy]]

\* RedHatBoyContext::update
update(c, frame_count) ==
    LET vy == IF c.velocity.y < TERMINAL_VELOCITY
              THEN c.velocity.y + GRAVITY ELSE c.velocity.y
        fr == IF c.frame < frame_count THEN c.frame + 1 ELSE 0
        y1 == c.position.y + vy
        y2 == IF y1 > FLOOR THEN FLOOR ELSE y1
    IN  [frame |-> fr,
         position |-> [x |-> c.position.x, y |-> y2],
         velocity |-> [x |-> c.velocity.x, y |-> vy]]

\* RedHatBoyContext::update_with_fixed_frame
update_with_fixed_frame(c) ==
    LET vy == IF c.velocity.y < TERMINAL_VELOCITY
              THEN c.velocity.y + GRAVITY ELSE c.velocity.y
        y1 == c.position.y + vy
        y2 == IF y1 > FLOOR THEN FLOOR ELSE y1
    IN  [frame |-> c.frame,
         position |-> [x |-> c.position.x, y |-> y2],
         velocity |-> [x |-> c.velocity.x, y |-> vy]]

reset_frame(c) == [c EXCEPT !.frame = 0]

run_right(c) == [c EXCEPT !.velocity.x = c.velocity.x + RUNNING_SPEED]

set_vertical_velocity(c, y) == [c EXCEPT !.velocity.y = y]

stop(c) == [c EXCEPT !.velocity.x = 0]

\* set_on without the player-height offset
set_on_NoOffset(c, position) == [c EXCEPT !.position.y = position]

set_on(c, position) == [c EXCEPT !.position.y = position - PLAYER_HEIGHT]

\* ---------------------------------------------------------------------------
\* RedHatBoyState<S>: a state is [tag, context]
\* ---------------------------------------------------------------------------
State(tag, c) == [tag |-> tag, context |-> c]

\* RedHatBoyState<Idle>::new
Idle_new ==
    State("Idle", [frame |-> 0,
                   position |-> [x |-> STARTING_POINT, y |-> FLOOR],
                   velocity |-> [x |-> 0, y |-> 0]])

\* run that keeps the frame the idle animation has reached
Idle_run_KeepsFrame(s) == State("Running", run_right(s.context))

Idle_run(s) == State("Running", run_right(reset_frame(s.context)))

Idle_update(s) == State("Idle", update(s.context, IDLE_FRAMES))

Running_update(s) == State("Running", update(s.context, RUNNING_FRAMES))

Running_slide(s) == State("Sliding", reset_frame(s.context))

Running_jump(s) ==
    State("Jumping", reset_frame(set_vertical_velocity(s.context, JUMP_SPEED)))

\* knock_out that keeps running: the x-velocity is not stopped
Running_knock_out_KeepsSpeed(s) == State("Falling", reset_frame(s.context))

Running_knock_out(s) == State("Falling", stop(reset_frame(s.context)))

\* land_on that restarts the run cycle
Running_land_on_ResetsFrame(s, pos) == State("Running", set_on(reset_frame(s.context), pos))

Running_land_on(s, pos) == State("Running", set_on(s.context, pos))

\* stand that starts running again: the running speed is added a second time
Sliding_stand_RunsAgain(s) == State("Running", run_right(reset_frame(s.context)))

Sliding_stand(s) == State("Running", reset_frame(s.context))

Sliding_update(s) ==
    LET u == State("Sliding", update(s.context, SLIDING_FRAMES))
    IN  IF u.context.frame >= SLIDING_FRAMES THEN Sliding_stand(u) ELSE u

Sliding_knock_out(s) == State("Falling", stop(reset_frame(s.context)))

\* land_on that restarts the slide animation
Sliding_land_on_ResetsFrame(s, pos) == State("Sliding", set_on(reset_frame(s.context), pos))

Sliding_land_on(s, pos) == State("Sliding", set_on(s.context, pos))

\* Jumping::land_on without reset_frame
Jumping_land_on_NoReset(s, pos) == State("Running", set_on(s.context, pos))

Jumping_land_on(s, pos) == State("Running", set_on(reset_frame(s.context), pos))

\* Jumping::update that lands only below the floor line
Jumping_update_BelowFloor(s) ==
    LET u == State("Jumping", update(s.context, JUMP_FRAMES))
    IN  IF u.context.position.y > FLOOR THEN Jumping_land_on(u, HEIGHT) ELSE u

Jumping_update(s) ==
    LET u == State("Jumping", update(s.context, JUMP_FRAMES))
    IN  IF u.context.position.y >= FLOOR THEN Jumping_land_on(u, HEIGHT) ELSE u

Jumping_knock_out(s) == State("Falling", stop(reset_frame(s.context)))

\* Falling::knocked_out handing the context to the wrong state
Falling_knocked_out_AsIdle(s) == State("Idle", s.context)

\* knocked_out that resets the frame as the other state changes do
Falling_knocked_out_ResetsFrame(s) == State("KnockedOut", reset_frame(s.context))

Falling_knocked_out(s) == State("KnockedOut", s.context)

Falling_update(s) ==
    LET u == State("Falling", update(s.context, FALL_FRAMES))
    IN  IF u.context.frame >= FALL_FRAMES THEN Falling_knocked_out(u) ELSE u

KnockedOut_update(s) == State("KnockedOut", update_with_fixed_frame(s.context))

\* ---------------------------------------------------------------------------
\* RedHatBoyStateMachine::transition
\* ---------------------------------------------------------------------------
\* transition with an extra arm: Land accepted in Falling
transition_FallingLands(s, event) ==
    LET t == s.tag
        e == event.type
    IN  CASE t = "Idle" /\ e = "Run" -> Idle_run(s)
          [] t = "Idle" /\ e = "Update" -> Idle_update(s)
          [] t = "Running" /\ e = "Slide" -> Running_slide(s)
          [] t = "Running" /\ e = "Update" -> Running_update(s)
          [] t = "Running" /\ e = "Jump" -> Running_jump(s)
          [] t = "Running" /\ e = "KnockOut" -> Running_knock_out(s)
          [] t = "Running" /\ e = "Land" -> Running_land_on(s, event.pos)
          [] t = "Jumping" /\ e = "Update" -> Jumping_update(s)
          [] t = "Jumping" /\ e = "Land" -> Jumping_land_on(s, event.pos)
          [] t = "Jumping" /\ e = "KnockOut" -> Jumping_knock_out(s)
          [] t = "Sliding" /\ e = "Update" -> Sliding_update(s)
          [] t = "Sliding" /\ e = "KnockOut" -> Sliding_knock_out(s)
          [] t = "Sliding" /\ e = "Land" -> Sliding_land_on(s, event.pos)
          [] t = "Falling" /\ e = "Update" -> Falling_update(s)
          [] t = "Falling" /\ e = "Land" -> Jumping_land_on(s, event.pos)
          [] t = "KnockedOut" /\ e = "Update" -> KnockedOut_update(s)
          [] OTHER -> s

\* transition with an extra arm: Jump accepted in Idle
transition_IdleJumps(s, event) ==
    LET t == s.tag
        e == event.type
    IN  CASE t = "Idle" /\ e = "Run" -> Idle_run(s)
          [] t = "Idle" /\ e = "Jump" -> Running_jump(s)
          [] t = "Idle" /\ e = "Update" -> Idle_update(s)
          [] t = "Running" /\ e = "Slide" -> Running_slide(s)
          [] t = "Running" /\ e = "Update" -> Running_update(s)
          [] t = "Running" /\ e = "Jump" -> Running_jump(s)
          [] t = "Running" /\ e = "KnockOut" -> Running_knock_out(s)
          [] t = "Running" /\ e = "Land" -> Running_land_on(s, event.pos)
          [] t = "Jumping" /\ e = "Update" -> Jumping_update(s)
          [] t = "Jumping" /\ e = "Land" -> Jumping_land_on(s, event.pos)
          [] t = "Jumping" /\ e = "KnockOut" -> Jumping_knock_out(s)
          [] t = "Sliding" /\ e = "Update" -> Sliding_update(s)
          [] t = "Sliding" /\ e = "KnockOut" -> Sliding_knock_out(s)
          [] t = "Sliding" /\ e = "Land" -> Sliding_land_on(s, event.pos)
          [] t = "Falling" /\ e = "Update" -> Falling_update(s)
          [] t = "KnockedOut" /\ e = "Update" -> KnockedOut_update(s)
          [] OTHER -> s

transition(s, event) ==
    LET t == s.tag
        e == event.type
    IN  CASE t = "Idle" /\ e = "Run" -> Idle_run(s)
          [] t = "Idle" /\ e = "Update" -> Idle_update(s)
          [] t = "Running" /\ e = "Slide" -> Running_slide(s)
          [] t = "Running" /\ e = "Update" -> Running_update(s)
          [] t = "Running" /\ e = "Jump" -> Running_jump(s)
          [] t = "Running" /\ e = "KnockOut" -> Running_knock_out(s)
          [] t = "Running" /\ e = "Land" -> Running_land_on(s, event.pos)
          [] t = "Jumping" /\ e = "Update" -> Jumping_update(s)
          [] t = "Jumping" /\ e = "Land" -> Jumping_land_on(s, event.pos)
          [] t = "Jumping" /\ e = "KnockOut" -> Jumping_knock_out(s)
          [] t = "Sliding" /\ e = "Update" -> Sliding_update(s)
          [] t = "Sliding" /\ e = "KnockOut" -> Sliding_knock_out(s)
          [] t = "Sliding" /\ e = "Land" -> Sliding_land_on(s, event.pos)
          [] t = "Falling" /\ e = "Update" -> Falling_update(s)
          [] t = "KnockedOut" /\ e = "Update" -> KnockedOut_update(s)
          [] OTHER -> s

\* ---------------------------------------------------------------------------
\* engine::Rect and engine::Image, as game.rs uses them
\* ---------------------------------------------------------------------------
Point(x, y) == [x |-> x, y |-> y]

Rect_new_from_x_y(x, y, width, height) ==
    [position |-> Point(x, y), width |-> width, height |-> height]

Rect_default == Rect_new_from_x_y(0, 0, 0, 0)

Rect_right(r) == r.position.x + r.width

Rect_bottom(r) == r.position.y + r.height

Rect_set_x(r, x) == [r EXCEPT !.position.x = x]

\* boxes that only touch do not intersect
Rect_intersects(a, b) ==
    /\ a.position.x < Rect_right(b)
    /\ Rect_right(a) > b.position.x
    /\ a.position.y < Rect_bottom(b)
    /\ Rect_bottom(a) > b.position.y

\* Image::new(element, position): the bounding box is the element's size at position
Image_new(size, position) ==
    [position |-> position,
     bounding_box |-> Rect_new_from_x_y(position.x, position.y, size.width, size.height)]

Image_set_x(image, x) ==
    [image EXCEPT !.position.x = x, !.bounding_box = Rect_set_x(@, x)]

Image_move_horizontally(image, distance) ==
    Image_set_x(image, image.position.x + distance)

Image_right(image) == Rect_right(image.bounding_box)

\* ---------------------------------------------------------------------------
\* Assets and the segment module: sizes and layout
\* ---------------------------------------------------------------------------
\* BG.png
BackgroundSize == [width |-> 600, height |-> 600]

\* Stone.png
StoneSize == [width |-> 54, height |-> 54]

\* rhb.json: the cell of the current frame (frame size and sprite_source_size)
Sheet_cell(t, frame) ==
    IF t = "Sliding"
    THEN [frame |-> [w |-> 110, h |-> 80], sprite_source_size |-> Point(30, 50)]
    ELSE [frame |-> [w |-> 90, h |-> 120], sprite_source_size |-> Point(40, 10)]

\* the relative bounding boxes of a floating platform
FLOATING_PLATFORM_BOUNDING_BOXES ==
    <<Rect_new_from_x_y(0, 0, 60, 54),
      Rect_new_from_x_y(60, 0, 264, 93),
      Rect_new_from_x_y(324, 0, 60, 54)>>

\* ---------------------------------------------------------------------------
\* RedHatBoy: geometry and queries
\* ---------------------------------------------------------------------------
\* RedHatBoy::destination_box
destination_box(s) ==
    LET sprite == Sheet_cell(s.tag, s.context.frame)
    IN  Rect_new_from_x_y(s.context.position.x + sprite.sprite_source_size.x,
                          s.context.position.y + sprite.sprite_source_size.y,
                          sprite.frame.w, sprite.frame.h)

X_OFFSET == 18
Y_OFFSET == 14
WIDTH_OFFSET == 28

\* RedHatBoy::bounding_box
bounding_box(s) ==
    LET d == destination_box(s)
    IN  Rect_new_from_x_y(d.position.x + X_OFFSET, d.position.y + Y_OFFSET,
                          d.width - WIDTH_OFFSET, d.height - Y_OFFSET)

\* RedHatBoy::walking_speed
walking_speed(s) == s.context.velocity.x

\* RedHatBoy::velocity_y
velocity_y(s) == s.context.velocity.y

\* RedHatBoy::pos_y
pos_y(s) == s.context.position.y

\* ---------------------------------------------------------------------------
\* Platform and Barrier (trait Obstacle); id is not a field of the program, it
\* names the obstacle
\* ---------------------------------------------------------------------------
\* Platform::new
Platform_new(id, position, bounding_boxes) ==
    [id |-> id,
     kind |-> "Platform",
     position |-> position,
     bounding_boxes |->
        [i \in 1..Len(bounding_boxes) |->
            Rect_new_from_x_y(bounding_boxes[i].position.x + position.x,
                              bounding_boxes[i].position.y + position.y,
                              bounding_boxes[i].width,
                              bounding_boxes[i].height)]]

\* Platform::move_horizontally moving the position only
Platform_move_horizontally_PositionOnly(p, x) ==
    [p EXCEPT !.position.x = p.position.x + x]

\* Platform::move_horizontally
Platform_move_horizontally(p, x) ==
    [p EXCEPT !.position.x = p.position.x + x,
              !.bounding_boxes =
                  [i \in 1..Len(p.bounding_boxes) |->
                      Rect_set_x(p.bounding_boxes[i], p.bounding_boxes[i].position.x + x)]]

\* Platform::right
Platform_right(p) ==
    IF Len(p.bounding_boxes) > 0
    THEN Rect_right(p.bounding_boxes[Len(p.bounding_boxes)])
    ELSE Rect_right(Rect_default)

\* the index of the first bounding box that intersects the character, 0 if none
FirstIntersecting(p, s) ==
    LET hits == {i \in 1..Len(p.bounding_boxes) :
                    Rect_intersects(bounding_box(s), p.bounding_boxes[i])}
    IN  IF hits = {} THEN 0 ELSE CHOOSE i \in hits : \A j \in hits : i <= j

\* check_intersection that also lands a character with y-velocity 0
Platform_event_LandsAtRest(p, s) ==
    LET i == FirstIntersecting(p, s)
    IN  IF i = 0 THEN [type |-> "None"]
        ELSE IF velocity_y(s) >= 0 /\ pos_y(s) < p.position.y
             THEN [type |-> "Land", pos |-> p.bounding_boxes[i].position.y]
             ELSE [type |-> "KnockOut"]

\* Platform::check_intersection: the event it sends to the character, "None"
\* when no box intersects
Platform_event(p, s) ==
    LET i == FirstIntersecting(p, s)
    IN  IF i = 0 THEN [type |-> "None"]
        ELSE IF velocity_y(s) > 0 /\ pos_y(s) < p.position.y
             THEN [type |-> "Land", pos |-> p.bounding_boxes[i].position.y]
             ELSE [type |-> "KnockOut"]

\* Platform::check_intersection: the character after the check
Platform_check_intersection(p, s) ==
    LET event == Platform_event(p, s)
    IN  IF event.type = "None" THEN s ELSE transition(s, event)

\* Barrier::new
Barrier_new(id, image) == [id |-> id, kind |-> "Barrier", image |-> image]

\* Barrier::check_intersection: the event it sends to the character, "None"
\* when the image does not intersect
Barrier_event(b, s) ==
    IF Rect_intersects(bounding_box(s), b.image.bounding_box)
    THEN [type |-> "KnockOut"]
    ELSE [type |-> "None"]

\* Barrier::check_intersection: the character after the check
Barrier_check_intersection(b, s) ==
    LET event == Barrier_event(b, s)
    IN  IF event.type = "None" THEN s ELSE transition(s, event)

\* Barrier::move_horizontally
Barrier_move_horizontally(b, x) ==
    [b EXCEPT !.image = Image_move_horizontally(b.image, x)]

\* Barrier::right
Barrier_right(b) == Image_right(b.image)

\* dyn Obstacle
right(o) == IF o.kind = "Platform" THEN Platform_right(o) ELSE Barrier_right(o)

move_horizontally(o, x) ==
    IF o.kind = "Platform"
    THEN Platform_move_horizontally(o, x)
    ELSE Barrier_move_horizontally(o, x)

check_intersection(o, s) ==
    IF o.kind = "Platform"
    THEN Platform_check_intersection(o, s)
    ELSE Barrier_check_intersection(o, s)

\* the event check_intersection sends
check_event(o, s) ==
    IF o.kind = "Platform" THEN Platform_event(o, s) ELSE Barrier_event(o, s)

\* rightmost
rightmost(obstacle_list) ==
    IF Len(obstacle_list) = 0 THEN 0
    ELSE LET rs == {right(obstacle_list[i]) : i \in 1..Len(obstacle_list)}
         IN  CHOOSE r \in rs : \A q \in rs : q <= r

\* ---------------------------------------------------------------------------
\* segment::stone_and_platform and segment::platform_and_stone; the obstacles
\* get the ids first_id and first_id + 1
\* ---------------------------------------------------------------------------
stone_and_platform(first_id, offset_x) ==
    <<Barrier_new(first_id, Image_new(StoneSize, Point(offset_x + 150, 546))),
      Platform_new(first_id + 1, Point(offset_x + 370, 420),
                   FLOATING_PLATFORM_BOUNDING_BOXES)>>

platform_and_stone(first_id, offset_x) ==
    <<Platform_new(first_id, Point(offset_x + 200, 375),
                   FLOATING_PLATFORM_BOUNDING_BOXES),
      Barrier_new(first_id + 1, Image_new(StoneSize, Point(offset_x + 400, 546)))>>

\* ---------------------------------------------------------------------------
\* Walk and WalkTheDog
\* ---------------------------------------------------------------------------
\* WalkTheDog::initialize, the Walk it builds (the character is RedHatBoy::new)
InitialWalk ==
    LET starting_obstacles == stone_and_platform(1, 0)
    IN  [backgrounds |-> <<Image_new(BackgroundSize, Point(0, 0)),
                           Image_new(BackgroundSize, Point(BackgroundSize.width, 0))>>,
         obstacles |-> starting_obstacles,
         timeline |-> rightmost(starting_obstacles)]

\* the state after a successful WalkTheDog::initialize
WalkInitialized ==
    /\ backgrounds = InitialWalk.backgrounds
    /\ obstacles = InitialWalk.obstacles
    /\ timeline = InitialWalk.timeline
    /\ next_id = Len(InitialWalk.obstacles)
    /\ removed = {}
    /\ scrolled = 0

\* no Walk has been built: the character or a platform is taken on its own
WalkAbsent ==
    /\ backgrounds = <<>>
    /\ obstacles = <<>>
    /\ timeline = 0
    /\ next_id = 0
    /\ removed = {}
    /\ scrolled = 0

\* no obstacle loop has run
ChecksAbsent ==
    /\ at_check = <<>>
    /\ checks = <<>>
    /\ keys = {}

\* the game that is driven is value, no initialize call is in flight
Facade(value) ==
    /\ game = value
    /\ initializing = -1
    /\ init_result = [type |-> "None"]
    /\ drawn = <<>>

\* no game is driven: the character or a platform is taken on its own
FacadeAbsent == Facade("None")

\* no platform is taken on its own
PlatformAbsent ==
    /\ platform = <<>>
    /\ relative_boxes = <<>>
    /\ last_move = 0

\* velocity with the sign of the character's speed
velocity_Forward(s) == walking_speed(s)

\* Walk::velocity
velocity(s) == 0 - walking_speed(s)

\* the input with the keys tried in the opposite order: jump, run_right, slide
ApplyKeys_JumpFirst(s, keystate) ==
    LET s1 == IF "Space" \in keystate THEN transition(s, [type |-> "Jump"]) ELSE s
        s2 == IF "ArrowRight" \in keystate THEN transition(s1, [type |-> "Run"]) ELSE s1
    IN  IF "ArrowDown" \in keystate THEN transition(s2, [type |-> "Slide"]) ELSE s2

\* WalkTheDog::update, the input: slide, run_right, jump as the keys are held
ApplyKeys(s, keystate) ==
    LET s1 == IF "ArrowDown" \in keystate THEN transition(s, [type |-> "Slide"]) ELSE s
        s2 == IF "ArrowRight" \in keystate THEN transition(s1, [type |-> "Run"]) ELSE s1
    IN  IF "Space" \in keystate THEN transition(s2, [type |-> "Jump"]) ELSE s2

\* the wrap test on the left edge instead of the right edge
WrapBackgrounds_OnLeftEdge(bgs, v) ==
    LET fst == Image_move_horizontally(bgs[1], v)
        snd == Image_move_horizontally(bgs[2], v)
        fst2 == IF fst.position.x < 0 THEN Image_set_x(fst, Image_right(snd)) ELSE fst
        snd2 == IF snd.position.x < 0 THEN Image_set_x(snd, Image_right(fst2)) ELSE snd
    IN  <<fst2, snd2>>

\* the wrap that puts a background back where the second one started
WrapBackgrounds_ToStart(bgs, v) ==
    LET fst == Image_move_horizontally(bgs[1], v)
        snd == Image_move_horizontally(bgs[2], v)
        fst2 == IF Image_right(fst) < 0 THEN Image_set_x(fst, BackgroundSize.width) ELSE fst
        snd2 == IF Image_right(snd) < 0 THEN Image_set_x(snd, BackgroundSize.width) ELSE snd
    IN  <<fst2, snd2>>

\* WalkTheDog::update, the backgrounds: move both, then wrap
WrapBackgrounds(bgs, v) ==
    LET fst == Image_move_horizontally(bgs[1], v)
        snd == Image_move_horizontally(bgs[2], v)
        fst2 == IF Image_right(fst) < 0 THEN Image_set_x(fst, Image_right(snd)) ELSE fst
        snd2 == IF Image_right(snd) < 0 THEN Image_set_x(snd, Image_right(fst2)) ELSE snd
    IN  <<fst2, snd2>>

\* retain that keeps everything
Cull_KeepsAll(obstacle_list) == obstacle_list

\* WalkTheDog::update, obstacles.retain(|obstacle| obstacle.right() > 0)
Cull(obstacle_list) == SelectSeq(obstacle_list, LAMBDA o : right(o) > 0)

\* WalkTheDog::update, the loop over the obstacles from index i on: move, then
\* check the intersection with the character the earlier checks left; log
\* takes one entry per obstacle checked
RECURSIVE MoveAndCheck(_, _, _, _, _)
MoveAndCheck(obstacle_list, i, v, s, log) ==
    IF i > Len(obstacle_list)
    THEN [obstacles |-> obstacle_list, boy |-> s, log |-> log]
    ELSE LET o == move_horizontally(obstacle_list[i], v)
         IN  MoveAndCheck([obstacle_list EXCEPT ![i] = o], i + 1, v,
                          check_intersection(o, s),
                          Append(log, [id |-> o.id, before |-> s,
                                       event |-> check_event(o, s)]))

\* generate_next_segment that leaves the timeline at the segment's start
generate_next_segment_KeepsTimeline(obstacle_list, tl, first_id, next_segment) ==
    LET next_obstacles ==
            IF next_segment = 0
            THEN stone_and_platform(first_id, tl + OBSTACLE_BUFFER)
            ELSE platform_and_stone(first_id, tl + OBSTACLE_BUFFER)
    IN  [timeline |-> tl + OBSTACLE_BUFFER,
         obstacles |-> obstacle_list \o next_obstacles]

\* generate_next_segment that starts the segment at the timeline itself
generate_next_segment_NoBuffer(obstacle_list, tl, first_id, next_segment) ==
    LET next_obstacles ==
            IF next_segment = 0
            THEN stone_and_platform(first_id, tl)
            ELSE platform_and_stone(first_id, tl)
    IN  [timeline |-> rightmost(next_obstacles),
         obstacles |-> obstacle_list \o next_obstacles]

\* generate_next_segment that takes the last obstacle for the rightmost one
generate_next_segment_LastObstacle(obstacle_list, tl, first_id, next_segment) ==
    LET next_obstacles ==
            IF next_segment = 0
            THEN stone_and_platform(first_id, tl + OBSTACLE_BUFFER)
            ELSE platform_and_stone(first_id, tl + OBSTACLE_BUFFER)
    IN  [timeline |-> right(next_obstacles[Len(next_obstacles)]),
         obstacles |-> obstacle_list \o next_obstacles]

\* Walk::generate_next_segment, next_segment being the number rng draws
generate_next_segment(obstacle_list, tl, first_id, next_segment) ==
    LET next_obstacles ==
            IF next_segment = 0
            THEN stone_and_platform(first_id, tl + OBSTACLE_BUFFER)
            ELSE platform_and_stone(first_id, tl + OBSTACLE_BUFFER)
    IN  [timeline |-> rightmost(next_obstacles),
         obstacles |-> obstacle_list \o next_obstacles]

Ids(obstacle_list) == {obstacle_list[i].id : i \in 1..Len(obstacle_list)}

KeyStates == SUBSET {"ArrowDown", "ArrowRight", "Space"}

\* WalkTheDog::update on a Loaded game with the keys of keystate held
Tick(keystate) ==
    /\ game = "Loaded"
    /\ scrolled < MaxScroll
    \* the values the tick computes on its way, each computed once
    /\ \E boy \in {transition(ApplyKeys(state_machine, keystate), [type |-> "Update"])} :
        \E v \in {velocity(boy)} :
        \E kept \in {Cull(obstacles)} :
        \E checked \in {MoveAndCheck(kept, 1, v, boy, <<>>)} :
            /\ backgrounds' = WrapBackgrounds(backgrounds, v)
            /\ state_machine' = checked.boy
            /\ IF timeline < TIMELINE_MINIMUM
               THEN \E next_segment \in {0, 1} :
                        LET generated == generate_next_segment(checked.obstacles, timeline,
                                                               next_id + 1, next_segment)
                        IN  /\ obstacles' = generated.obstacles
                            /\ timeline' = generated.timeline
                            /\ next_id' = next_id + 2
               ELSE /\ obstacles' = checked.obstacles
                    /\ timeline' = timeline + v
                    /\ next_id' = next_id
            /\ removed' = removed \cup (Ids(obstacles) \ Ids(kept))
            /\ scrolled' = scrolled - v
            /\ last_event' = [type |-> "Tick"]
            /\ updates' = -1
            /\ at_check' = boy
            /\ checks' = checked.log
            /\ drawn' = <<>>
            /\ UNCHANGED <<platform_vars, game, initializing, init_result>>

\* WalkTheDog::update on a Loaded game, whatever keys are held
WalkTheDog_update ==
    /\ \E keystate \in KeyStates : Tick(keystate)
    /\ UNCHANGED keys

InitWalk ==
    /\ state_machine = Idle_new
    /\ last_event = [type |-> "None"]
    /\ updates = -1
    /\ PlatformAbsent
    /\ WalkInitialized
    /\ ChecksAbsent
    /\ Facade("Loaded")

NextWalk == WalkTheDog_update

SpecWalk == InitWalk /\ [][NextWalk]_vars

\* ---------------------------------------------------------------------------
\* The game the loop drives: WalkTheDog::new, then initialize, update and draw
\* ---------------------------------------------------------------------------
\* the game is followed until the world has scrolled this far
MaxGameScroll == 24

\* WalkTheDog::initialize, what it awaits or parses, in the order of evaluation
InitSteps ==
    <<"fetch rhb.json", "load BG.png", "load Stone.png", "fetch tiles.json",
      "parse tiles.json", "load tiles.png", "parse rhb.json", "load rhb.png">>

ALREADY_INITIALIZED == "Error: Game is already initialized!"

\* WalkTheDog::new; no Walk and no character exist
InitGame ==
    /\ game = "Loading"
    /\ initializing = -1
    /\ init_result = [type |-> "None"]
    /\ drawn = <<>>
    /\ state_machine = <<>>
    /\ last_event = [type |-> "None"]
    /\ updates = -1
    /\ PlatformAbsent
    /\ WalkAbsent
    /\ ChecksAbsent

\* initialize that starts on its steps whatever the game is
WalkTheDog_initialize_Again ==
    /\ initializing = -1
    /\ initializing' = 0
    /\ init_result' = [type |-> "None"]
    /\ last_event' = [type |-> "Initialize"]
    /\ drawn' = <<>>
    /\ UNCHANGED <<game, state_machine, updates, platform_vars, walk_vars, check_vars>>

\* WalkTheDog::initialize is called: on Loading it starts on its steps, on
\* Loaded it returns the error at once
WalkTheDog_initialize ==
    /\ initializing = -1
    /\ IF game = "Loading"
       THEN /\ initializing' = 0
            /\ init_result' = [type |-> "None"]
       ELSE /\ initializing' = -1
            /\ init_result' = [type |-> "Err", error |-> ALREADY_INITIALIZED]
    /\ last_event' = [type |-> "Initialize"]
    /\ drawn' = <<>>
    /\ UNCHANGED <<game, state_machine, updates, platform_vars, walk_vars, check_vars>>

\* a failing step without the `?`: the call goes on to the next step
InitializeStepFails_GoesOn ==
    /\ initializing \in 0..(Len(InitSteps) - 2)
    /\ initializing' = initializing + 1
    /\ last_event' = [type |-> "Step", step |-> InitSteps[initializing + 1], ok |-> FALSE]
    /\ UNCHANGED <<game, init_result, drawn, state_machine, updates, platform_vars,
                   walk_vars, check_vars>>

\* the next step of the call fails: `?` returns the error, nothing is built
InitializeStepFails ==
    /\ initializing \in 0..(Len(InitSteps) - 1)
    /\ initializing' = -1
    /\ init_result' = [type |-> "Err", error |-> InitSteps[initializing + 1]]
    /\ last_event' = [type |-> "Step", step |-> InitSteps[initializing + 1], ok |-> FALSE]
    /\ UNCHANGED <<game, drawn, state_machine, updates, platform_vars, walk_vars,
                   check_vars>>

\* the next step of the call succeeds; after the last one the Walk is built
\* and the loop drives the Loaded game that is returned
InitializeStepSucceeds ==
    /\ initializing \in 0..(Len(InitSteps) - 1)
    /\ last_event' = [type |-> "Step", step |-> InitSteps[initializing + 1], ok |-> TRUE]
    /\ IF initializing + 1 < Len(InitSteps)
       THEN /\ initializing' = initializing + 1
            /\ UNCHANGED <<game, init_result, state_machine, walk_vars>>
       ELSE /\ initializing' = -1
            /\ init_result' = [type |-> "Ok"]
            /\ game' = "Loaded"
            /\ state_machine' = Idle_new
            /\ backgrounds' = InitialWalk.backgrounds
            /\ obstacles' = InitialWalk.obstacles
            /\ timeline' = InitialWalk.timeline
            /\ next_id' = Len(InitialWalk.obstacles)
            /\ UNCHANGED <<removed, scrolled>>
    /\ UNCHANGED <<drawn, updates, platform_vars, check_vars>>

\* WalkTheDog::update on a Loading game: the if let does not match
WalkTheDog_update_Loading ==
    /\ game = "Loading"
    /\ \E keystate \in KeyStates :
        last_event' = [type |-> "Tick", keystate |-> keystate]
    /\ drawn' = <<>>
    /\ UNCHANGED <<game, initializing, init_result, state_machine, updates,
                   platform_vars, walk_vars, check_vars>>

\* Image::draw
Image_draw(image) == <<[call |-> "draw_entire_image", rect |-> image.bounding_box]>>

\* RedHatBoy::draw
RedHatBoy_draw(s) ==
    <<[call |-> "draw_image", rect |-> destination_box(s)],
      [call |-> "draw_rect", rect |-> bounding_box(s)]>>

\* the widths of the sprites of a platform
PLATFORM_SPRITE_WIDTHS == <<128, 128, 128>>

\* Platform::draw: the sprites side by side, then the bounding boxes
Platform_draw(p) ==
    [i \in 1..Len(PLATFORM_SPRITE_WIDTHS) |->
        [call |-> "draw_image",
         rect |-> Rect_new_from_x_y(p.position.x + 128 * (i - 1), p.position.y,
                                    PLATFORM_SPRITE_WIDTHS[i], 128)]]
        \o [i \in 1..Len(p.bounding_boxes) |->
                [call |-> "draw_rect", rect |-> p.bounding_boxes[i]]]

\* Barrier::draw
Barrier_draw(b) == Image_draw(b.image)

\* dyn Obstacle
draw(o) == IF o.kind = "Platform" THEN Platform_draw(o) ELSE Barrier_draw(o)

RECURSIVE DrawAll(_, _)
DrawAll(obstacle_list, i) ==
    IF i > Len(obstacle_list) THEN <<>>
    ELSE draw(obstacle_list[i]) \o DrawAll(obstacle_list, i + 1)

\* draw with the clear inside the if let
WalkTheDog_draw_ClearsWhenLoaded ==
    /\ game \in {"Loading", "Loaded"}
    /\ drawn' =
            IF game = "Loaded"
            THEN <<[call |-> "clear",
                    rect |-> Rect_new_from_x_y(0, 0, VIEWPORT_WIDTH, HEIGHT)]>>
                    \o Image_draw(backgrounds[1]) \o Image_draw(backgrounds[2])
                    \o RedHatBoy_draw(state_machine)
                    \o DrawAll(obstacles, 1)
            ELSE <<>>
    /\ last_event' = [type |-> "Draw"]
    /\ UNCHANGED <<game, initializing, init_result, state_machine, updates,
                   platform_vars, walk_vars, check_vars>>

\* WalkTheDog::draw: clear, then the Walk when there is one
WalkTheDog_draw ==
    /\ game \in {"Loading", "Loaded"}
    /\ drawn' =
            <<[call |-> "clear",
               rect |-> Rect_new_from_x_y(0, 0, VIEWPORT_WIDTH, HEIGHT)]>>
                \o (IF game = "Loaded"
                    THEN Image_draw(backgrounds[1]) \o Image_draw(backgrounds[2])
                            \o RedHatBoy_draw(state_machine)
                            \o DrawAll(obstacles, 1)
                    ELSE <<>>)
    /\ last_event' = [type |-> "Draw"]
    /\ UNCHANGED <<game, initializing, init_result, state_machine, updates,
                   platform_vars, walk_vars, check_vars>>

NextGame ==
    \/ WalkTheDog_initialize
    \/ InitializeStepFails
    \/ InitializeStepSucceeds
    \/ WalkTheDog_update_Loading
    \/ WalkTheDog_update /\ scrolled < MaxGameScroll
    \/ WalkTheDog_draw

SpecGame == InitGame /\ [][NextGame]_vars

\* ---------------------------------------------------------------------------
\* The obstacle loop of WalkTheDog::update on its own: the cull, then move and
\* check every obstacle, from a character and an obstacle list that are drawn
\* ---------------------------------------------------------------------------
\* the loop is followed until the obstacles have moved this far
MaxCheckScroll == 8

CheckedContexts(vx) ==
    {[frame |-> 5,
      position |-> [x |-> STARTING_POINT, y |-> y],
      velocity |-> [x |-> vx, y |-> vy]] :
        y \in {FLOOR, 340, 420 - PLAYER_HEIGHT}, vy \in {0 - 5, 0, 7}}

CheckedStates ==
    {State(t, c) : t \in {"Running", "Sliding", "Jumping"},
                   c \in CheckedContexts(RUNNING_SPEED)}
        \cup {State(t, c) : t \in {"Idle", "Falling", "KnockedOut"},
                            c \in CheckedContexts(0)}

Stone(id, x, y) == Barrier_new(id, Image_new(StoneSize, Point(x, y)))

\* two boxes with different tops, the lower one stored first
STEPPED_BOUNDING_BOXES ==
    <<Rect_new_from_x_y(0, 10, 60, 54), Rect_new_from_x_y(0, 0, 150, 93)>>

CheckedObstacleLists ==
    {<<Stone(1, 60, 546), Stone(2, 60, 400)>>,
     <<Platform_new(1, Point(40, 420), FLOATING_PLATFORM_BOUNDING_BOXES)>>,
     <<Platform_new(1, Point(40, 420), FLOATING_PLATFORM_BOUNDING_BOXES),
       Stone(2, 60, 380)>>,
     <<Stone(1, 60, 380),
       Platform_new(2, Point(40, 420), FLOATING_PLATFORM_BOUNDING_BOXES)>>,
     <<Platform_new(1, Point(40, 420), STEPPED_BOUNDING_BOXES)>>,
     <<Stone(1, 0 - 100, 546), Stone(2, 60, 546)>>,
     <<Platform_new(1, Point(370, 420), FLOATING_PLATFORM_BOUNDING_BOXES)>>}

InitChecks ==
    /\ state_machine \in CheckedStates
    /\ last_event = [type |-> "None"]
    /\ updates = -1
    /\ PlatformAbsent
    /\ backgrounds = <<>>
    /\ obstacles \in CheckedObstacleLists
    /\ timeline = 0
    /\ next_id = Len(obstacles)
    /\ removed = {}
    /\ scrolled = 0
    /\ ChecksAbsent
    /\ FacadeAbsent

\* WalkTheDog::update from the retain to the end of the obstacle loop
ObstacleLoop ==
    LET v == velocity(state_machine)
        kept == Cull(obstacles)
        checked == MoveAndCheck(kept, 1, v, state_machine, <<>>)
    IN  /\ scrolled - v <= MaxCheckScroll
        /\ obstacles' = checked.obstacles
        /\ state_machine' = checked.boy
        /\ at_check' = state_machine
        /\ checks' = checked.log
        /\ removed' = removed \cup (Ids(obstacles) \ Ids(kept))
        /\ scrolled' = scrolled - v
        /\ last_event' = [type |-> "Loop"]
        /\ updates' = -1
        /\ UNCHANGED <<platform_vars, backgrounds, timeline, next_id, keys, facade_vars>>

NextChecks == ObstacleLoop

SpecChecks == InitChecks /\ [][NextChecks]_vars

\* ---------------------------------------------------------------------------
\* The first ticks of a Loaded game, the keys held in each tick recorded
\* ---------------------------------------------------------------------------
\* the ticks are followed until the world has scrolled this far
MaxKeyScroll == 16

\* WalkTheDog::update, the keystate the game loop passes being kept
KeyedTick ==
    /\ scrolled < MaxKeyScroll
    /\ \E keystate \in KeyStates :
        /\ Tick(keystate)
        /\ keys' = keystate

NextKeys == KeyedTick

SpecKeys == InitWalk /\ [][NextKeys]_vars

\* ---------------------------------------------------------------------------
\* A Platform on its own: Platform::new, then Platform::move_horizontally
\* ---------------------------------------------------------------------------
PlatformPositions == {Point(0, 0), Point(370, 420), Point(0 - 8, 375)}

RelativeBoxLists ==
    {FLOATING_PLATFORM_BOUNDING_BOXES,
     <<Rect_new_from_x_y(0, 0, 384, 93)>>,
     <<Rect_new_from_x_y(5, 7, 30, 20), Rect_new_from_x_y(0, 0, 10, 10)>>}

Distances == {0 - 4, 0 - 1, 0, 3}

InitPlatform ==
    /\ state_machine = Idle_new
    /\ last_event = [type |-> "None"]
    /\ updates = -1
    /\ WalkAbsent
    /\ ChecksAbsent
    /\ FacadeAbsent
    /\ \E position \in PlatformPositions, boxes \in RelativeBoxLists :
        /\ platform = Platform_new(0, position, boxes)
        /\ relative_boxes = boxes
    /\ last_move = 0

\* Platform::move_horizontally(x), while the platform stays within MaxDrift of
\* the positions it is built at
MovePlatform ==
    /\ \E x \in Distances :
        /\ platform' = Platform_move_horizontally(platform, x)
        /\ last_move' = x
    /\ platform'.position.x \in (0 - 8 - MaxDrift)..(370 + MaxDrift)
    /\ UNCHANGED <<relative_boxes, boy_vars, walk_vars, check_vars, facade_vars>>

NextPlatform == MovePlatform

SpecPlatform == InitPlatform /\ [][NextPlatform]_vars

\* ---------------------------------------------------------------------------
\* RedHatBoy: the methods that feed one event to the state machine
\* ---------------------------------------------------------------------------
Apply(event) ==
    /\ state_machine' = transition(state_machine, event)
    /\ last_event' = event
    /\ updates' = -1
    /\ UNCHANGED <<platform_vars, walk_vars, check_vars, facade_vars>>

\* RedHatBoy::update
RedHatBoy_update == Apply([type |-> "Update"])

\* RedHatBoy::run_right
RedHatBoy_run_right == Apply([type |-> "Run"])

\* RedHatBoy::slide
RedHatBoy_slide == Apply([type |-> "Slide"])

\* RedHatBoy::jump
RedHatBoy_jump == Apply([type |-> "Jump"])

\* RedHatBoy::knock_out
RedHatBoy_knock_out == Apply([type |-> "KnockOut"])

\* RedHatBoy::land_on
RedHatBoy_land_on == \E pos \in LandPositions : Apply([type |-> "Land", pos |-> pos])

\* RedHatBoy::new
Init ==
    /\ state_machine = Idle_new
    /\ last_event = [type |-> "None"]
    /\ updates = -1
    /\ PlatformAbsent
    /\ WalkAbsent
    /\ ChecksAbsent
    /\ FacadeAbsent

Next ==
    \/ RedHatBoy_update
    \/ RedHatBoy_run_right
    \/ RedHatBoy_slide
    \/ RedHatBoy_jump
    \/ RedHatBoy_knock_out
    \/ RedHatBoy_land_on

Spec == Init /\ [][Next]_vars


\* ---------------------------------------------------------------------------
\* Update-only runs: a state entered with frame 0, then RedHatBoy::update
\* again and again, counted while the tag stays
\* ---------------------------------------------------------------------------
EntryContexts(vx) ==
    {[frame |-> 0,
      position |-> [x |-> STARTING_POINT, y |-> y],
      velocity |-> [x |-> vx, y |-> vy]] :
        y \in {FLOOR, 420 - PLAYER_HEIGHT}, vy \in {0, 7, TERMINAL_VELOCITY}}

EntryStates ==
    {Idle_new}
        \cup {State("Running", c) : c \in EntryContexts(RUNNING_SPEED)}
        \cup {State("Sliding", c) : c \in EntryContexts(RUNNING_SPEED)}
        \cup {Running_jump(State("Running", c)) : c \in EntryContexts(RUNNING_SPEED)}
        \cup {State("Falling", c) : c \in EntryContexts(0)}

InitUpdates ==
    /\ state_machine \in EntryStates
    /\ last_event = [type |-> "None"]
    /\ updates = 0
    /\ PlatformAbsent
    /\ WalkAbsent
    /\ ChecksAbsent
    /\ FacadeAbsent

\* RedHatBoy::update, counted
CountedUpdate ==
    /\ updates >= 0
    /\ updates < MaxUpdates
    /\ state_machine' = transition(state_machine, [type |-> "Update"])
    /\ last_event' = [type |-> "Update"]
    /\ updates' = IF state_machine'.tag = state_machine.tag THEN updates + 1 ELSE -1
    /\ UNCHANGED <<platform_vars, walk_vars, check_vars, facade_vars>>

NextUpdates == CountedUpdate

SpecUpdates == InitUpdates /\ [][NextUpdates]_vars

\* ---------------------------------------------------------------------------
\* A jump on its own: Running::jump, then RedHatBoy::update in every tick
\* of the game loop until the character has landed
\* ---------------------------------------------------------------------------
\* the heights a jump starts at: the floor and the tops of the two platforms
JumpHeights == {FLOOR, 420 - PLAYER_HEIGHT, 375 - PLAYER_HEIGHT}

InitJumps ==
    /\ state_machine \in
            {Running_jump(State("Running",
                                [frame |-> 0,
                                 position |-> [x |-> STARTING_POINT, y |-> y],
                                 velocity |-> [x |-> RUNNING_SPEED, y |-> TERMINAL_VELOCITY]])) :
                y \in JumpHeights}
    /\ last_event = [type |-> "None"]
    /\ updates = 0
    /\ PlatformAbsent
    /\ WalkAbsent
    /\ ChecksAbsent
    /\ FacadeAbsent

SpecJumps == InitJumps /\ [][NextUpdates]_vars /\ WF_vars(CountedUpdate)

\* ---------------------------------------------------------------------------
\* A slide on its own: Running::slide, then RedHatBoy::update and
\* RedHatBoy::land_on in any order, the Updates counted
\* ---------------------------------------------------------------------------
InitSlides ==
    /\ state_machine \in
            {Running_slide(State("Running",
                                 [frame |-> fr,
                                  position |-> [x |-> STARTING_POINT, y |-> FLOOR],
                                  velocity |-> [x |-> RUNNING_SPEED, y |-> vy]])) :
                fr \in {0, 7}, vy \in {7, TERMINAL_VELOCITY}}
    /\ last_event = [type |-> "None"]
    /\ updates = 0
    /\ PlatformAbsent
    /\ WalkAbsent
    /\ ChecksAbsent
    /\ FacadeAbsent

\* RedHatBoy::land_on between the counted Updates
CountedLand ==
    /\ updates >= 0
    /\ \E pos \in LandPositions :
        /\ state_machine' = transition(state_machine, [type |-> "Land", pos |-> pos])
        /\ last_event' = [type |-> "Land", pos |-> pos]
    /\ updates' = IF state_machine'.tag = state_machine.tag THEN updates ELSE -1
    /\ UNCHANGED <<platform_vars, walk_vars, check_vars, facade_vars>>

NextSlides ==
    \/ CountedUpdate
    \/ CountedLand

SpecSlides == InitSlides /\ [][NextSlides]_vars

\* ---------------------------------------------------------------------------
\* Claims
\* ---------------------------------------------------------------------------
tag == state_machine.tag
context == state_machine.context

\* the events each state accepts (the arms of transition)
Accepted(t) ==
    CASE t = "Idle" -> {"Run", "Update"}
      [] t = "Running" -> {"Update", "Slide", "Jump", "KnockOut", "Land"}
      [] t = "Sliding" -> {"Update", "KnockOut", "Land"}
      [] t = "Jumping" -> {"Update", "KnockOut", "Land"}
      [] t = "Falling" -> {"Update"}
      [] t = "KnockedOut" -> {"Update"}

\* a state the types of the program can hold: u8 frame, i16 coordinates
WellFormed(s) ==
    /\ s.tag \in Tags
    /\ s.context.frame \in 0..255
    /\ s.context.position.x \in -32768..32767
    /\ s.context.position.y \in -32768..32767
    /\ s.context.velocity.x \in -32768..32767
    /\ s.context.velocity.y \in -32768..32767

\* C1: in every reachable state, an event the state does not accept is the
\* identity of transition (same tag, same frame, position and velocity), and
\* every event yields a state again, with no arithmetic overflow.
C1_UnacceptedIsIdentity ==
    \A e \in Events :
        /\ e.type \notin Accepted(tag) => transition(state_machine, e) = state_machine
        /\ WellFormed(transition(state_machine, e))

\* C1 witness: Slide has just been fed to an Idle character that had already
\* advanced its frame, and it is still Idle.
C1_Witness ==
    /\ tag = "Idle"
    /\ last_event.type = "Slide"
    /\ context.frame = 5

\* C2: a step from Falling or KnockedOut ends in Falling or KnockedOut, and a
\* step from KnockedOut ends in KnockedOut, whatever the event.
C2_TerminalStaysTerminal ==
    [][/\ tag \in {"Falling", "KnockedOut"} =>
            state_machine'.tag \in {"Falling", "KnockedOut"}
       /\ tag = "KnockedOut" => state_machine'.tag = "KnockedOut"]_vars

\* C2 witness: Run has been fed to a KnockedOut character (KnockedOut is only
\* entered by Update), and it is still KnockedOut.
C2_Witness ==
    /\ tag = "KnockedOut"
    /\ last_event.type = "Run"

FrameThreshold(t) ==
    CASE t = "Idle" -> IDLE_FRAMES
      [] t = "Running" -> RUNNING_FRAMES
      [] t = "Sliding" -> SLIDING_FRAMES
      [] t = "Jumping" -> JUMP_FRAMES
      [] t = "Falling" -> FALL_FRAMES

\* C3 as stated: after N Updates from frame 0 with no other event and no
\* change of state, the frame counter is N mod T.
C3_FrameIsUpdatesModThreshold ==
    updates >= 0 => context.frame = updates % FrameThreshold(tag)

\* C3 amended: after N Updates from frame 0 with no other event and no change
\* of state, the frame counter is N mod (T + 1): the counter takes the value T
\* itself before it wraps.
C3_FrameIsUpdatesModThresholdPlusOne ==
    updates >= 0 => context.frame = updates % (FrameThreshold(tag) + 1)

\* C3 witness: a Running character two Updates past its threshold, wrapped.
C3_Witness ==
    /\ tag = "Running"
    /\ updates = RUNNING_FRAMES + 2
    /\ context.frame = 1

\* C4: the frame counter never exceeds the threshold of the current state.
C4_FrameWithinThreshold ==
    tag # "KnockedOut" => context.frame <= FrameThreshold(tag)

\* C4 witness: Land has been fed to a Running character whose frame is at the
\* threshold; the tag and the frame are kept.
C4_Witness ==
    /\ tag = "Running"
    /\ last_event.type = "Land"
    /\ context.frame = RUNNING_FRAMES

\* C5: every Update raises y-velocity by GRAVITY below TERMINAL_VELOCITY and
\* keeps it at TERMINAL_VELOCITY; y-velocity is never above TERMINAL_VELOCITY.
C5_GravityCapped ==
    /\ [](context.velocity.y <= TERMINAL_VELOCITY)
    /\ [][last_event'.type = "Update" =>
            state_machine'.context.velocity.y =
                IF context.velocity.y < TERMINAL_VELOCITY
                THEN context.velocity.y + GRAVITY
                ELSE context.velocity.y]_vars

\* C5 witness: an Update of a KnockedOut character at terminal velocity.
C5_Witness ==
    /\ tag = "KnockedOut"
    /\ last_event.type = "Update"
    /\ context.velocity.y = TERMINAL_VELOCITY

Anchored(pos) ==
    /\ state_machine'.context.position.y = pos - PLAYER_HEIGHT
    /\ state_machine'.context.position.x = context.position.x
    /\ state_machine'.context.velocity = context.velocity

\* C6 as stated: in every state, Land(pos) sets the y-position to
\* pos - PLAYER_HEIGHT and keeps the x-position and the velocity.
C6_LandAlwaysAnchors ==
    [][last_event'.type = "Land" => Anchored(last_event'.pos)]_vars

\* C6 amended: in Running, Sliding and Jumping, Land(pos) sets the y-position
\* to pos - PLAYER_HEIGHT and keeps the x-position and the velocity; in Idle,
\* Falling and KnockedOut, Land(pos) changes nothing.
C6_LandAnchorsWhereAccepted ==
    [][last_event'.type = "Land" =>
            IF tag \in {"Running", "Sliding", "Jumping"}
            THEN Anchored(last_event'.pos)
            ELSE state_machine' = state_machine]_vars

\* C6 witness: Land(420) has put a Sliding character on 420 - PLAYER_HEIGHT.
C6_Witness ==
    /\ tag = "Sliding"
    /\ last_event = [type |-> "Land", pos |-> 420]
    /\ context.position.y = 420 - PLAYER_HEIGHT
    /\ context.velocity.y < 0


\* ---------------------------------------------------------------------------
\* Claims about Platform, checked under SpecPlatform
\* ---------------------------------------------------------------------------
BoxesAt(p, boxes) ==
    /\ Len(p.bounding_boxes) = Len(boxes)
    /\ \A i \in 1..Len(boxes) :
        p.bounding_boxes[i] =
            Rect_new_from_x_y(boxes[i].position.x + p.position.x,
                              boxes[i].position.y + p.position.y,
                              boxes[i].width, boxes[i].height)

ShiftedBy(d) ==
    /\ platform'.position.x = platform.position.x + d
    /\ platform'.position.y = platform.position.y
    /\ Len(platform'.bounding_boxes) = Len(platform.bounding_boxes)
    /\ \A i \in 1..Len(platform.bounding_boxes) :
        platform'.bounding_boxes[i] =
            [platform.bounding_boxes[i] EXCEPT !.position.x = @ + d]
    /\ Platform_right(platform') = Platform_right(platform) + d

Covers(image) ==
    /\ image.position.x <= 0
    /\ Image_right(image) >= VIEWPORT_WIDTH

\* C8 as stated: one of the two backgrounds spans the viewport on its own.
C8_OneBackgroundCovers ==
    Covers(backgrounds[1]) \/ Covers(backgrounds[2])

\* C8 amended: the two backgrounds span the viewport together: one has its left
\* edge <= 0, the other starts at the right edge of the first and has its
\* right edge >= the viewport width.
C8_BackgroundsCoverTogether ==
    \E i \in {1, 2} :
        LET left == backgrounds[i]
            other == backgrounds[3 - i]
        IN  /\ left.position.x <= 0
            /\ other.position.x = Image_right(left)
            /\ Image_right(other) >= VIEWPORT_WIDTH

\* C8 witness: the first background has been wrapped to the right of the second.
C8_Witness ==
    /\ scrolled > BackgroundSize.width
    /\ backgrounds[1].position.x > backgrounds[2].position.x

C10_OffscreenObstacleCulled ==
    /\ [](Ids(obstacles) \cap removed = {})
    /\ [][\A i \in 1..Len(obstacles) :
            right(obstacles[i]) <= 0 => obstacles[i].id \notin Ids(obstacles')]_vars

\* C10 witness: the starting stone has been culled and the game goes on.
C10_Witness ==
    /\ 1 \in removed
    /\ state_machine.tag = "Running"
    /\ obstacles # <<>>

\* the obstacle of the list that has this id
ObstacleOf(id) == CHOOSE o \in {obstacles[k] : k \in 1..Len(obstacles)} : o.id = id

\* the character after the i-th check of the last obstacle loop
AfterCheck(i) == IF i < Len(checks) THEN checks[i + 1].before ELSE state_machine

\* C11: in the obstacle loop a Barrier never sends Land, and a Running
\* character whose bounding box intersects the Barrier leaves the check
\* Falling with frame 0 and x-velocity 0, whatever its y-velocity and height.
C11_BarrierKnocksRunningOut ==
    \A i \in 1..Len(checks) :
        ObstacleOf(checks[i].id).kind = "Barrier" =>
            /\ checks[i].event.type # "Land"
            /\ (/\ checks[i].before.tag = "Running"
                /\ Rect_intersects(bounding_box(checks[i].before),
                                   ObstacleOf(checks[i].id).image.bounding_box))
                    => /\ AfterCheck(i).tag = "Falling"
                       /\ AfterCheck(i).context.frame = 0
                       /\ AfterCheck(i).context.velocity.x = 0
                       /\ checks[i].event.type = "KnockOut"

\* C11 witness: a Running character that was moving upwards above the floor
\* has been knocked out by a Barrier.
C11_Witness ==
    \E i \in 1..Len(checks) :
        /\ ObstacleOf(checks[i].id).kind = "Barrier"
        /\ checks[i].before.tag = "Running"
        /\ checks[i].before.context.velocity.y < 0
        /\ checks[i].before.context.position.y < FLOOR
        /\ checks[i].before.context.frame > 0
        /\ checks[i].event.type = "KnockOut"
        /\ AfterCheck(i).tag = "Falling"

\* C12: an Update of a Jumping character whose integrated height reaches FLOOR
\* gives Running with frame 0 at y = FLOOR; below that it stays Jumping; and a
\* jump that starts on the floor and gets Updates only ends in Running at
\* y = FLOOR.
C12_JumpLandsOnFloor ==
    /\ [][tag = "Jumping" /\ last_event'.type = "Update" =>
            IF context.position.y + context'.velocity.y >= FLOOR
            THEN /\ tag' = "Running"
                 /\ context'.frame = 0
                 /\ context'.position.y = FLOOR
            ELSE /\ tag' = "Jumping"
                 /\ context'.position.y < FLOOR]_vars
    /\ (tag = "Jumping" /\ updates = 0 /\ context.position.y = FLOOR)
            ~> (tag = "Running" /\ context.frame = 0 /\ context.position.y = FLOOR)

\* C12 witness: the Update that brought the jump back to the floor line has
\* made the character Running.
C12_Witness ==
    /\ tag = "Running"
    /\ last_event.type = "Update"
    /\ updates = -1
    /\ context.frame = 0
    /\ context.position.y = FLOOR
    /\ context.velocity.y = TERMINAL_VELOCITY

\* C13: Run on an Idle character, whatever its frame, gives Running with
\* frame 0 and x-velocity RUNNING_SPEED; position and y-velocity stay.
C13_IdleRunStartsRunning ==
    [][tag = "Idle" /\ last_event'.type = "Run" =>
            /\ context.velocity.x = 0
            /\ tag' = "Running"
            /\ context'.frame = 0
            /\ context'.velocity.x = RUNNING_SPEED
            /\ context'.velocity.y = context.velocity.y
            /\ context'.position = context.position]_vars

\* C13 witness: Run has just been applied and the character runs from frame 0
\* with the y-velocity seven idle Updates have built up.
C13_Witness ==
    /\ last_event.type = "Run"
    /\ tag = "Running"
    /\ context.frame = 0
    /\ context.velocity = [x |-> RUNNING_SPEED, y |-> 7]
    /\ context.position = [x |-> STARTING_POINT, y |-> FLOOR]

\* ---------------------------------------------------------------------------
\* Claims about the game facade, checked under SpecGame
\* ---------------------------------------------------------------------------
\* no Walk and no character have been built
NothingBuilt ==
    /\ state_machine = <<>>
    /\ backgrounds = <<>>
    /\ obstacles = <<>>

\* C14: the game starts Loading; initialize on a Loaded game returns the
\* already-initialized error and leaves the game, its Walk and its character
\* as they are; a Loaded game never becomes Loading again.
C14_LoadedIsFinal ==
    /\ game = "Loading"
    /\ [][game = "Loaded" => game' = "Loaded"]_vars
    /\ [][game = "Loaded" /\ last_event'.type = "Initialize" =>
            /\ init_result' = [type |-> "Err", error |-> ALREADY_INITIALIZED]
            /\ initializing' = -1
            /\ UNCHANGED <<game, state_machine, walk_vars>>]_vars

\* C14 witness: initialize has been refused on a Loaded game whose world has
\* scrolled.
C14_Witness ==
    /\ game = "Loaded"
    /\ last_event.type = "Initialize"
    /\ init_result = [type |-> "Err", error |-> ALREADY_INITIALIZED]
    /\ scrolled > 0

\* C15: a failing step ends the initialize call with that step's error, the
\* game stays Loading and nothing is built; the call advances only by steps
\* that succeed, in order, and the game becomes Loaded only on the success of
\* the last step.
C15_FailedStepAborts ==
    /\ [](game = "Loading" => NothingBuilt)
    /\ [][last_event'.type = "Step" /\ ~last_event'.ok =>
            /\ init_result' = [type |-> "Err", error |-> last_event'.step]
            /\ initializing' = -1
            /\ game' = "Loading"
            /\ NothingBuilt']_vars
    /\ [][initializing >= 0 /\ initializing' > initializing =>
            /\ initializing' = initializing + 1
            /\ last_event' = [type |-> "Step", step |-> InitSteps[initializing'],
                               ok |-> TRUE]]_vars
    /\ [][game = "Loading" /\ game' = "Loaded" =>
            /\ initializing = Len(InitSteps) - 1
            /\ last_event' = [type |-> "Step", step |-> InitSteps[Len(InitSteps)],
                               ok |-> TRUE]
            /\ init_result' = [type |-> "Ok"]
            /\ ~NothingBuilt']_vars

\* C15 witness: the last step, loading rhb.png, has failed after the seven
\* before it succeeded, and the game is still Loading.
C15_Witness ==
    /\ last_event = [type |-> "Step", step |-> "load rhb.png", ok |-> FALSE]
    /\ init_result = [type |-> "Err", error |-> "load rhb.png"]
    /\ game = "Loading"
    /\ NothingBuilt

\* C16 as claimed: on a Loading game update and draw change no game state and
\* issue no renderer call.
C16_LoadingUpdateAndDrawAreNoOps ==
    [][game = "Loading" /\ last_event'.type \in {"Tick", "Draw"} =>
            /\ UNCHANGED <<game, state_machine, walk_vars, initializing, init_result>>
            /\ drawn' = <<>>]_vars

\* C16 as amended: on a Loading game update, whatever the keys, and draw change
\* no game state; update issues no renderer call and draw issues exactly one,
\* the clear of the 600 x 600 rectangle.
C16_LoadingDrawOnlyClears ==
    [][game = "Loading" /\ last_event'.type \in {"Tick", "Draw"} =>
            /\ UNCHANGED <<game, state_machine, walk_vars, initializing, init_result>>
            /\ drawn' = IF last_event'.type = "Tick" THEN <<>>
                        ELSE <<[call |-> "clear",
                                rect |-> [position |-> [x |-> 0, y |-> 0],
                                          width |-> 600, height |-> 600]]>>]_vars

\* C16 witness: draw has run on a Loading game and has cleared the canvas.
C16_Witness ==
    /\ game = "Loading"
    /\ last_event.type = "Draw"
    /\ Len(drawn) = 1
    /\ drawn[1].call = "clear"
    /\ NothingBuilt

\* ---------------------------------------------------------------------------
\* Claims about the order of a tick, checked under SpecWalk
\* ---------------------------------------------------------------------------
\* obstacle q is obstacle o moved by d along x
ObstacleShifted(o, q, d) ==
    /\ q.id = o.id
    /\ q.kind = o.kind
    /\ IF o.kind = "Barrier"
       THEN q.image = [position |-> [o.image.position EXCEPT !.x = @ + d],
                       bounding_box |-> [o.image.bounding_box EXCEPT !.position.x = @ + d]]
       ELSE /\ q.position = [o.position EXCEPT !.x = @ + d]
            /\ Len(q.bounding_boxes) = Len(o.bounding_boxes)
            /\ \A k \in 1..Len(o.bounding_boxes) :
                    q.bounding_boxes[k] = [o.bounding_boxes[k] EXCEPT !.position.x = @ + d]

\* the scroll delta of the tick that has just run
TickDelta == 0 - at_check.context.velocity.x

\* C17: the delta of a tick is minus the x-velocity the character has after
\* the tick's key events and Update, before the obstacle loop; both backgrounds
\* and every obstacle that survives the cull move by it, also in a tick whose
\* obstacle loop knocks the character out; what the tick generates stays where
\* the generator put it.
C17_OneDeltaPerTick ==
    [][last_event'.type = "Tick" =>
        /\ \E keystate \in KeyStates :
                at_check' = transition(ApplyKeys(state_machine, keystate),
                                       [type |-> "Update"])
        /\ scrolled' = scrolled - TickDelta'
        /\ \A i \in 1..2 :
                backgrounds'[i].position.x =
                    IF Image_right(backgrounds[i]) + TickDelta' < 0
                    THEN Image_right(backgrounds'[3 - i])
                    ELSE backgrounds[i].position.x + TickDelta'
        /\ \A i \in 1..Len(obstacles) :
                right(obstacles[i]) > 0 =>
                    \E j \in 1..Len(obstacles') :
                        ObstacleShifted(obstacles[i], obstacles'[j], TickDelta')
        /\ \A j \in 1..Len(obstacles') :
                obstacles'[j].id > next_id =>
                    \/ obstacles'[j] =
                            stone_and_platform(next_id + 1, timeline + OBSTACLE_BUFFER)
                                [obstacles'[j].id - next_id]
                    \/ obstacles'[j] =
                            platform_and_stone(next_id + 1, timeline + OBSTACLE_BUFFER)
                                [obstacles'[j].id - next_id]]_vars

\* C17 witness: a tick whose obstacle loop knocked the running character out
\* has scrolled the world all the same.
C17_Witness ==
    /\ last_event.type = "Tick"
    /\ at_check.tag = "Running"
    /\ TickDelta = 0 - RUNNING_SPEED
    /\ state_machine.tag = "Falling"
    /\ state_machine.context.velocity.x = 0
    /\ \E i \in 1..Len(checks) : checks[i].event.type = "KnockOut"

\* the ids of the obstacles of a list, in list order
IdList(obstacle_list) == [i \in 1..Len(obstacle_list) |-> obstacle_list[i].id]

\* the obstacles of the list whose right() is above 0, the ones the cull keeps
Survivors == SelectSeq(obstacles, LAMBDA o : right(o) > 0)

\* r is the largest right() of the obstacles of segment
LargestRight(segment, r) ==
    /\ \E i \in 1..Len(segment) : right(segment[i]) = r
    /\ \A i \in 1..Len(segment) : right(segment[i]) <= r

\* C18: a tick that starts with the timeline below TIMELINE_MINIMUM appends
\* exactly one segment, built by one of the two generators at timeline +
\* OBSTACLE_BUFFER, behind the obstacles it keeps, and sets the timeline to the
\* largest right() of that segment; any other tick generates nothing and moves
\* the timeline by the tick's delta.
C18_TimelinePolicy ==
    [][last_event'.type = "Tick" =>
        IF timeline < TIMELINE_MINIMUM
        THEN \E segment \in {stone_and_platform(next_id + 1, timeline + OBSTACLE_BUFFER),
                              platform_and_stone(next_id + 1, timeline + OBSTACLE_BUFFER)} :
                /\ Len(obstacles') = Len(Survivors) + Len(segment)
                /\ SubSeq(IdList(obstacles'), 1, Len(Survivors)) = IdList(Survivors)
                /\ SubSeq(obstacles', Len(Survivors) + 1, Len(obstacles')) = segment
                /\ LargestRight(segment, timeline')
                /\ next_id' = next_id + Len(segment)
        ELSE /\ IdList(obstacles') = IdList(Survivors)
             /\ next_id' = next_id
             /\ timeline' = timeline + TickDelta']_vars

\* C18 witness: the world has scrolled, the timeline had fallen below
\* TIMELINE_MINIMUM, and the tick that has just run has appended the third
\* segment behind the obstacles it checked.
C18_Witness ==
    /\ last_event.type = "Tick"
    /\ scrolled > 0
    /\ next_id = 6
    /\ Len(checks) = Len(obstacles) - 2
    /\ Len(checks) > 0
    /\ obstacles[Len(obstacles)].id = next_id
    /\ LargestRight(SubSeq(obstacles, Len(obstacles) - 1, Len(obstacles)), timeline)

\* ---------------------------------------------------------------------------
\* Claims about the obstacle loop, checked under SpecChecks
\* ---------------------------------------------------------------------------
\* the indices of the boxes of platform p that intersect the box of character s
Hits(p, s) ==
    {k \in 1..Len(p.bounding_boxes) :
        Rect_intersects(bounding_box(s), p.bounding_boxes[k])}

\* C19: a Platform whose boxes do not intersect the character's box sends
\* nothing and leaves the character as it is; otherwise it acts on the first
\* intersecting box in stored order only: Land(top of that box) when the
\* y-velocity is above 0 and the character's y is above the platform's y,
\* KnockOut in every other case.
C19_PlatformFirstBoxDecides ==
    \A i \in 1..Len(checks) :
        LET p == ObstacleOf(checks[i].id)
            b == checks[i].before
        IN  p.kind = "Platform" =>
                IF Hits(p, b) = {}
                THEN /\ checks[i].event.type = "None"
                     /\ AfterCheck(i) = b
                ELSE /\ \E k \in Hits(p, b) :
                        /\ \A j \in Hits(p, b) : k <= j
                        /\ checks[i].event =
                                IF /\ b.context.velocity.y > 0
                                   /\ b.context.position.y < p.position.y
                                THEN [type |-> "Land", pos |-> p.bounding_boxes[k].position.y]
                                ELSE [type |-> "KnockOut"]
                     /\ AfterCheck(i) = transition(b, checks[i].event)

\* C19 witness: a falling jump met two boxes of a platform whose tops differ
\* and has landed on the one stored first, the lower one.
C19_Witness ==
    \E i \in 1..Len(checks) :
        LET p == ObstacleOf(checks[i].id)
            b == checks[i].before
        IN  /\ p.kind = "Platform"
            /\ b.tag = "Jumping"
            /\ Hits(p, b) = {1, 2}
            /\ p.bounding_boxes[1].position.y > p.bounding_boxes[2].position.y
            /\ checks[i].event = [type |-> "Land", pos |-> p.bounding_boxes[1].position.y]
            /\ AfterCheck(i).tag = "Running"
            /\ AfterCheck(i).context.position.y = p.bounding_boxes[1].position.y - PLAYER_HEIGHT

\* C20: the obstacle loop checks every obstacle that survives the cull, in
\* list order and to the end of the list; when the character enters the loop
\* Running, Sliding or Jumping and some obstacle sends KnockOut, it leaves the
\* loop Falling, whatever Land events the obstacles before and after send.
C20_KnockOutWinsTheTick ==
    [][last_event'.type = "Loop" =>
        /\ [i \in 1..Len(checks') |-> checks'[i].id] = IdList(Survivors)
        /\ at_check' = state_machine
        /\ (/\ state_machine.tag \in {"Running", "Sliding", "Jumping"}
            /\ \E i \in 1..Len(checks') : checks'[i].event.type = "KnockOut")
                => state_machine'.tag = "Falling"]_vars

\* C20 witness: in one loop a platform has sent Land to a Jumping character,
\* a stone behind it in the list has sent KnockOut, and the character is
\* Falling.
C20_Witness ==
    /\ last_event.type = "Loop"
    /\ at_check.tag = "Jumping"
    /\ Len(checks) = 2
    /\ checks[1].event.type = "Land"
    /\ checks[2].before.tag = "Running"
    /\ checks[2].event.type = "KnockOut"
    /\ state_machine.tag = "Falling"

\* ---------------------------------------------------------------------------
\* Claims about a slide, checked under SpecSlides
\* ---------------------------------------------------------------------------
\* C21: a slide entered with frame 0 that gets Update and Land events only is
\* Sliding with frame = number of Updates so far, below SLIDING_FRAMES, until
\* the 14th Update makes it Running with frame 0; a Land changes neither the
\* frame nor the count, and the x-velocity stays RUNNING_SPEED throughout.
C21_SlideEndsOnFourteenthUpdate ==
    /\ [](tag = "Sliding" =>
            /\ context.frame = updates
            /\ updates < SLIDING_FRAMES
            /\ context.velocity.x = RUNNING_SPEED)
    /\ [][tag = "Sliding" /\ last_event'.type = "Update" =>
            IF updates + 1 = 14
            THEN /\ tag' = "Running"
                 /\ context'.frame = 0
                 /\ context'.velocity.x = context.velocity.x
            ELSE /\ tag' = "Sliding"
                 /\ updates' = updates + 1]_vars
    /\ [][tag = "Sliding" /\ last_event'.type = "Land" =>
            /\ tag' = "Sliding"
            /\ context'.frame = context.frame
            /\ context'.velocity = context.velocity
            /\ updates' = updates]_vars

\* C21 witness: the slide has ended in Running with frame 0 above the floor,
\* so a Land on the platform top came between its Updates.
C21_Witness ==
    /\ tag = "Running"
    /\ last_event.type = "Update"
    /\ updates = -1
    /\ context.frame = 0
    /\ context.velocity.x = RUNNING_SPEED
    /\ context.position.y < FLOOR

\* ---------------------------------------------------------------------------
\* Claims about the character, checked under Spec
\* ---------------------------------------------------------------------------
\* context d is context c after gravity and the floor clamp, the frame aside
Fallen(c, d) ==
    /\ d.velocity.x = c.velocity.x
    /\ d.velocity.y = IF c.velocity.y < TERMINAL_VELOCITY
                      THEN c.velocity.y + GRAVITY ELSE c.velocity.y
    /\ d.position.x = c.position.x
    /\ d.position.y = IF c.position.y + d.velocity.y > FLOOR
                      THEN FLOOR ELSE c.position.y + d.velocity.y

\* C22: a Falling character has x-velocity 0 and a frame below FALL_FRAMES; an
\* Update keeps it Falling with the frame one higher until the frame reaches
\* FALL_FRAMES, where it becomes KnockedOut with the frame left at 29; every
\* Update of a KnockedOut character keeps the frame and applies gravity and
\* the floor clamp.
C22_FallEndsKnockedOut ==
    /\ [](tag = "Falling" => context.frame < FALL_FRAMES /\ context.velocity.x = 0)
    /\ [](tag = "KnockedOut" => context.frame = 29)
    /\ [][tag = "Falling" /\ last_event'.type = "Update" =>
            /\ tag' = IF context.frame + 1 < 29 THEN "Falling" ELSE "KnockedOut"
            /\ context'.frame = context.frame + 1
            /\ Fallen(context, context')]_vars
    /\ [][tag = "KnockedOut" /\ last_event'.type = "Update" =>
            /\ tag' = "KnockedOut"
            /\ context'.frame = context.frame
            /\ Fallen(context, context')]_vars

\* C22 witness: a character knocked out on its way up is KnockedOut in the
\* air, frame 29, and an Update has just let gravity act on it.
C22_Witness ==
    /\ tag = "KnockedOut"
    /\ last_event.type = "Update"
    /\ context.frame = FALL_FRAMES
    /\ context.velocity = [x |-> 0, y |-> 8]
    /\ context.position.y < FLOOR

\* C23: Land keeps a Running character Running and a Sliding character
\* Sliding, the frame as it was; Land on a Jumping character gives Running
\* with frame 0.
C23_LandFrameEffect ==
    [][last_event'.type = "Land" =>
        /\ tag = "Running" => tag' = "Running" /\ context'.frame = context.frame
        /\ tag = "Sliding" => tag' = "Sliding" /\ context'.frame = context.frame
        /\ tag = "Jumping" => tag' = "Running" /\ context'.frame = 0]_vars

\* C23 witness: Land on the platform top has just re-anchored a character
\* that is in the middle of its run cycle.
C23_Witness ==
    /\ last_event = [type |-> "Land", pos |-> 420]
    /\ tag = "Running"
    /\ context.frame = 11
    /\ context.position.y = 420 - PLAYER_HEIGHT

\* ---------------------------------------------------------------------------
\* Claims about the keys of a tick, checked under SpecKeys
\* ---------------------------------------------------------------------------
\* the character after event when the key is held, the character itself when not
Held(key, event, s) == IF key \in keys' THEN transition(s, [type |-> event]) ELSE s

\* C24: the held keys act as Slide, then Run, then Jump, each on the state the
\* one before left, and the Update acts on the result. So an Idle character
\* with ArrowRight and Space held ends the tick Jumping with y-velocity
\* JUMP_SPEED + GRAVITY; a Running character with ArrowDown and Space held
\* goes into the Update Sliding; an Idle character with only ArrowDown or only
\* Space held ends the tick Idle.
C24_KeysInFixedOrder ==
    [][last_event'.type = "Tick" =>
        /\ at_check' =
                transition(Held("Space", "Jump",
                                Held("ArrowRight", "Run",
                                     Held("ArrowDown", "Slide", state_machine))),
                           [type |-> "Update"])
        /\ (tag = "Idle" /\ {"ArrowRight", "Space"} \subseteq keys') =>
                /\ tag' = "Jumping"
                /\ context'.velocity.y = JUMP_SPEED + GRAVITY
                /\ context'.velocity.x = RUNNING_SPEED
        /\ (tag = "Running" /\ {"ArrowDown", "Space"} \subseteq keys') =>
                /\ at_check'.tag = "Sliding"
                /\ at_check'.context.frame = 1
                /\ tag' \in {"Sliding", "Falling"}
        /\ (tag = "Idle" /\ keys' \in {{"ArrowDown"}, {"Space"}}) =>
                tag' = "Idle"]_vars

\* C24 witness: the first tick had ArrowRight and Space held and the character
\* that was Idle is in the air.
C24_Witness ==
    /\ last_event.type = "Tick"
    /\ keys = {"ArrowRight", "Space"}
    /\ scrolled = RUNNING_SPEED
    /\ tag = "Jumping"
    /\ context.frame = 1
    /\ context.velocity.y = JUMP_SPEED + GRAVITY
    /\ context.position.y = FLOOR + JUMP_SPEED + GRAVITY

\* ---------------------------------------------------------------------------
\* Claims about the invariants of a Loaded game, checked under SpecWalk
\* ---------------------------------------------------------------------------
\* C25: the x-velocity is RUNNING_SPEED in Running, Sliding and Jumping and 0
\* in Idle, Falling and KnockedOut; the x-position stays STARTING_POINT; the
\* delta of every tick is 0 or -RUNNING_SPEED, and a tick that starts with the
\* character Falling or KnockedOut scrolls nothing.
C25_SpeedFollowsTag ==
    /\ [](context.velocity.x =
                IF tag \in {"Running", "Sliding", "Jumping"} THEN 4 ELSE 0)
    /\ [](context.position.x = STARTING_POINT)
    /\ [][last_event'.type = "Tick" =>
            /\ scrolled - scrolled' \in {0, 0 - 4}
            /\ tag \in {"Falling", "KnockedOut"} =>
                    /\ scrolled' = scrolled
                    /\ backgrounds' = backgrounds
                    /\ \A i \in 1..Len(obstacles) :
                            right(obstacles[i]) > 0 =>
                                \E j \in 1..Len(obstacles') : obstacles'[j] = obstacles[i]]_vars

\* C25 witness: the world had scrolled, the character lies knocked out against
\* an obstacle that still sends KnockOut, and the tick that has just run had
\* delta 0.
C25_Witness ==
    /\ last_event.type = "Tick"
    /\ scrolled > 0
    /\ tag = "KnockedOut"
    /\ at_check.tag = "KnockedOut"
    /\ at_check.context.velocity.x = 0
    /\ \E i \in 1..Len(checks) : checks[i].event.type = "KnockOut"

\* background i has been put somewhere else than the tick's delta takes it
Repositioned(i) ==
    backgrounds'[i].position.x # backgrounds[i].position.x - (scrolled' - scrolled)

\* C26: the two backgrounds always abut: the left edge of one is the right
\* edge of the other, their x coordinates one background width apart; no tick
\* repositions both.
C26_BackgroundsAbut ==
    /\ [](\E i \in 1..2 :
            /\ backgrounds[i].position.x = Image_right(backgrounds[3 - i])
            /\ backgrounds[i].position.x - backgrounds[3 - i].position.x
                    = backgrounds[i].bounding_box.width)
    /\ [][last_event'.type = "Tick" => ~(Repositioned(1) /\ Repositioned(2))]_vars

\* C26 witness: the first background has scrolled out and now starts where
\* the second one ends, inside the viewport.
C26_Witness ==
    /\ last_event.type = "Tick"
    /\ backgrounds[2].position.x < 0
    /\ backgrounds[1].position.x = Image_right(backgrounds[2])
    /\ backgrounds[1].position.x < VIEWPORT_WIDTH

\* the segment generated last: the obstacles with the two highest ids, which
\* are the last two of the list
LatestSegment == SubSeq(obstacles, Len(obstacles) - 1, Len(obstacles))

\* C27: after initialize and after every tick the segment generated last is
\* still at the end of the list, the timeline is the largest right() of its
\* obstacles as they stand now, and no obstacle of the list reaches further
\* right than the timeline.
C27_TimelineFollowsLatestSegment ==
    /\ Len(obstacles) >= 2
    /\ IdList(LatestSegment) = <<next_id - 1, next_id>>
    /\ LargestRight(LatestSegment, timeline)
    /\ \A i \in 1..Len(obstacles) : right(obstacles[i]) <= timeline

\* C27 witness: the latest segment is a platform followed by a stone, so its
\* rightmost obstacle is not its last; it has scrolled since it was generated
\* and the timeline has moved with the platform's right edge.
C27_Witness ==
    /\ last_event.type = "Tick"
    /\ Len(checks) = Len(obstacles)
    /\ scrolled > 100
    /\ LatestSegment[1].kind = "Platform"
    /\ LatestSegment[2].kind = "Barrier"
    /\ timeline = right(LatestSegment[1])
    /\ timeline > right(LatestSegment[2])
    /\ timeline > TIMELINE_MINIMUM

====
